---- MODULE Spec2Model ----
(***************************************************************************)
(* Model of the SolProd contact API (src/main.py): the pydantic request    *)
(* models and their field validators, the per-client rate limit put on the *)
(* two submission routes, the two handlers, send_email and the responses.  *)
(*                                                                         *)
(* A string is a sequence of one-character strings.  Time is counted in    *)
(* minutes.  The server runs one asyncio event loop: a handler runs from   *)
(* its start to its response without yielding (src/main.py has no await    *)
(* in discuss_project, submit_review or send_email), so at most one        *)
(* request is being executed (cur) while others wait (pending).            *)
(***************************************************************************)
EXTENDS Bags, FiniteSets, Integers, Sequences, TLC

VARIABLES
    now,        \* wall clock, minutes
    storage,    \* the limiter's in-memory counters: key -> [count, expiry]
    pending,    \* bag of requests received and not yet dispatched
    cur,        \* the request the event loop is executing (pc "idle": none)
    nreq,       \* number of requests received so far
    environ,    \* os.environ: EMAIL_USER/EMAIL_PASSWORD and RECIPIENT_EMAIL
    admitted,   \* history: key -> attempts admitted in the key's window
    wstart,     \* history: key -> minute the key's window began, or -1
    phone_in,   \* validator harness: the phone string typed so far
    phone_out   \* validator harness: the validator's result

vars == <<now, storage, pending, cur, nreq, environ, admitted, wstart,
          phone_in, phone_out>>

----------------------------------------------------------------------------
(* Bounds of the model *)

MaxRequests == 2
MaxPending == 1
MaxTicks == 2
TickMinutes == 8
MaxBurst == 7
MaxQuota == 6
MaxPhoneDigits == 11
MaxPhoneOther == 2

(* Program constants *)

Limit == 5
WindowMinutes == 15
NameMinLen == 2
PhoneMinDigits == 10
CommentMinLen == 10
RatingMin == 1
RatingMax == 5

----------------------------------------------------------------------------
(* Characters and Python string helpers *)

Digit == {"0", "1", "2", "3", "4", "5", "6", "7", "8", "9"}

\* Python's \s and str.strip(): space, tab, newline, carriage return, form feed
Whitespace == {" ", "\t", "\n", "\r", "\f"}

PhonePunct == {"+", "-", "(", ")"}

Letter ==
    {"a", "b", "c", "d", "e", "f", "g", "h", "i", "j", "k", "l", "m", "n",
     "o", "p", "q", "r", "s", "t", "u", "v", "w", "x", "y", "z",
     "A", "B", "C", "D", "E", "F", "G", "H", "I", "J", "K", "L", "M", "N",
     "O", "P", "Q", "R", "S", "T", "U", "V", "W", "X", "Y", "Z"}

RECURSIVE LStrip(_)
LStrip(s) ==
    IF s = <<>> THEN <<>>
    ELSE IF Head(s) \in Whitespace THEN LStrip(Tail(s)) ELSE s

RECURSIVE RStrip(_)
RStrip(s) ==
    IF s = <<>> THEN <<>>
    ELSE IF s[Len(s)] \in Whitespace THEN RStrip(SubSeq(s, 1, Len(s) - 1))
    ELSE s

\* str.strip()
Strip(s) == RStrip(LStrip(s))

\* re.sub(r'[\s\+\-\(\)]', '', v)
RECURSIVE StripSeparators(_)
StripSeparators(v) ==
    IF v = <<>> THEN <<>>
    ELSE IF Head(v) \in Whitespace \cup PhonePunct
         THEN StripSeparators(Tail(v))
         ELSE <<Head(v)>> \o StripSeparators(Tail(v))

\* re.compile(r'^[\d\s\+\-\(\)]+$').match(v)
PhonePatternMatches(v) ==
    /\ Len(v) > 0
    /\ \A i \in 1..Len(v) : v[i] \in Digit \cup Whitespace \cup PhonePunct

----------------------------------------------------------------------------
(* Field validators.  A result is [ok, value, msg].                        *)

Valid(v) == [ok |-> TRUE, value |-> v, msg |-> ""]
ValueError(m) == [ok |-> FALSE, value |-> <<>>, msg |-> m]

name_not_normalised(v) == Valid(v)

name_must_not_be_empty(v) ==
    IF Strip(v) = <<>> THEN ValueError("Name cannot be empty")
    ELSE IF Len(Strip(v)) < NameMinLen
         THEN ValueError("Name must be at least 2 characters long")
         ELSE Valid(Strip(v))

phone_must_be_valid(v) ==
    IF ~PhonePatternMatches(v) THEN ValueError("Invalid phone number format")
    ELSE IF Len(StripSeparators(v)) < PhoneMinDigits
         THEN ValueError("Phone number must contain at least 10 digits")
         ELSE Valid(Strip(v))

comment_must_not_be_empty(v) ==
    IF Strip(v) = <<>> THEN ValueError("Comment cannot be empty")
    ELSE IF Len(Strip(v)) < CommentMinLen
         THEN ValueError("Comment must be at least 10 characters long")
         ELSE Valid(Strip(v))

rating_must_be_valid(v) ==
    IF v < RatingMin \/ v > RatingMax
    THEN [ok |-> FALSE, value |-> 0, msg |-> "Rating must be between 1 and 5"]
    ELSE [ok |-> TRUE, value |-> v, msg |-> ""]

\* email: EmailStr -- the address is stripped, has one "@", a dot-atom local
\* part and a domain of at least two non-empty labels
EmailLocalChars == Letter \cup Digit \cup {".", "-", "_", "+", "&", "'"}
EmailDomainChars == Letter \cup Digit \cup {".", "-"}

DotAtom(s, chars) ==
    /\ Len(s) > 0
    /\ \A i \in 1..Len(s) : s[i] \in chars
    /\ s[1] # "." /\ s[Len(s)] # "."
    /\ \A i \in 1..(Len(s) - 1) : ~(s[i] = "." /\ s[i + 1] = ".")

EmailStr(v) ==
    LET s == Strip(v)
        ats == {i \in 1..Len(s) : s[i] = "@"}
    IN  IF Cardinality(ats) # 1
        THEN ValueError("value is not a valid email address")
        ELSE LET i == CHOOSE j \in ats : TRUE
                 local == SubSeq(s, 1, i - 1)
                 domain == SubSeq(s, i + 1, Len(s))
             IN  IF /\ DotAtom(local, EmailLocalChars)
                    /\ DotAtom(domain, EmailDomainChars)
                    /\ \E j \in 1..Len(domain) : domain[j] = "."
                 THEN Valid(s)
                 ELSE ValueError("value is not a valid email address")

----------------------------------------------------------------------------
(* Request models.  A body is the parsed JSON object; the result is        *)
(* [ok, data, errors]: pydantic runs every field's validator and collects  *)
(* the failures in field order.                                            *)

FieldError(loc, r) ==
    IF r.ok THEN <<>> ELSE <<[loc |-> loc, type |-> "value_error", msg |-> r.msg]>>

\* productName: Optional[str] = None; None and "" are both <<>> here (both
\* are falsy where the handler reads the field)
DiscussProjectRequest(body) ==
    LET n == name_must_not_be_empty(body.name)
        e == EmailStr(body.email)
        p == phone_must_be_valid(body.phone)
        c == comment_must_not_be_empty(body.comment)
        errors == FieldError("name", n) \o FieldError("email", e)
                    \o FieldError("phone", p) \o FieldError("comment", c)
    IN  [ok |-> errors = <<>>,
         data |-> [name |-> n.value, email |-> e.value, phone |-> p.value,
                   productName |-> body.productName, comment |-> c.value],
         errors |-> errors]

ReviewRequest(body) ==
    LET n == name_must_not_be_empty(body.name)
        p == phone_must_be_valid(body.phone)
        r == rating_must_be_valid(body.rating)
        c == comment_must_not_be_empty(body.comment)
        errors == FieldError("name", n) \o FieldError("phone", p)
                    \o FieldError("rating", r) \o FieldError("comment", c)
    IN  [ok |-> errors = <<>>,
         data |-> [name |-> n.value, phone |-> p.value, rating |-> r.value,
                   comment |-> c.value],
         errors |-> errors]

\* validation_exception_handler: one message per error, ". "-joined
validation_exception_handler(errors) ==
    [status |-> 422,
     success |-> "false",
     detail |-> [i \in 1..Len(errors) |-> <<errors[i].loc, errors[i].msg>>]]

----------------------------------------------------------------------------
(* Notification formatting.  The template's markup is kept as whole tokens *)
(* (one sequence element each); a field value contributes its characters   *)
(* one element each, so a one-character "<" in a body comes from a field.  *)

\* data.comment.replace(chr(10), '<br>')
RECURSIVE ReplaceNewlines(_)
ReplaceNewlines(s) ==
    IF s = <<>> THEN <<>>
    ELSE (IF Head(s) = "\n" THEN <<"<br>">> ELSE <<Head(s)>>)
            \o ReplaceNewlines(Tail(s))

Field(label, value) ==
    <<"<div class='field'><div class='field-label'>", label,
      "</div><div class='field-value'>">> \o value \o <<"</div></div>">>

Link(scheme, value) ==
    <<"<a href='", scheme>> \o value \o <<"'>">> \o value \o <<"</a>">>

Footer(t) == <<"<div class='footer'><p>Received at: ", ToString(t), "</p></div>">>

discuss_admin_html(data, t) ==
    <<"<!DOCTYPE html><html><head><style>", "</style></head><body>",
      "<h2>New Project Discussion Request</h2>">>
    \o Field("Name:", data.name)
    \o Field("Email:", Link("mailto:", data.email))
    \o Field("Phone:", Link("tel:", data.phone))
    \o (IF data.productName # <<>>
        THEN Field("Product Name:", data.productName) ELSE <<>>)
    \o Field("Comment:", ReplaceNewlines(data.comment))
    \o Footer(t) \o <<"</body></html>">>

discuss_admin_text(data, t) ==
    <<"New Project Discussion Request", "Name: ">> \o data.name
    \o <<"Email: ">> \o data.email \o <<"Phone: ">> \o data.phone
    \o (IF data.productName # <<>>
        THEN <<"Product Name: ">> \o data.productName ELSE <<>>)
    \o <<"Comment:">> \o data.comment \o <<"Received at: ", ToString(t)>>

\* stars = filled * rating + empty * (5 - rating)
Stars(rating) ==
    [i \in 1..RatingMax |-> IF i <= rating THEN "star" ELSE "nostar"]

review_admin_html(data, t) ==
    <<"<!DOCTYPE html><html><head><style>", "</style></head><body>",
      "<h2>New Review Received</h2>">>
    \o Field("Name:", data.name)
    \o Field("Phone:", Link("tel:", data.phone))
    \o Field("Rating:", Stars(data.rating) \o <<" (", ToString(data.rating), "/5)">>)
    \o Field("Review:", ReplaceNewlines(data.comment))
    \o Footer(t) \o <<"</body></html>">>

review_text(data) ==
    <<"New Review from ">> \o data.name
    \o <<"Rating: ", ToString(data.rating), "/5">> \o data.comment

DefaultRecipient ==
    <<"s", "o", "l", "u", "t", "i", "o", "n", "s", "@", "g", "m", "a", "i", "l",
      ".", "c", "o", "m">>

\* os.getenv("RECIPIENT_EMAIL", "solutions.production.manager@gmail.com")
recipient_from_submission(env, data) ==
    IF "email" \in DOMAIN data THEN data.email ELSE DefaultRecipient

recipient_email(env, data) ==
    IF env.recipient_set THEN env.RECIPIENT_EMAIL ELSE DefaultRecipient

discuss_mail(env, data, t) ==
    [to_email |-> recipient_email(env, data),
     subject |-> <<"New Project Discussion - ">> \o data.name,
     html_content |-> discuss_admin_html(data, t),
     text_content |-> discuss_admin_text(data, t),
     reply_to |-> data.email]

review_mail(env, data, t) ==
    [to_email |-> recipient_email(env, data),
     subject |-> <<"New Review (", ToString(data.rating), "/5) - ">> \o data.name,
     html_content |-> review_admin_html(data, t),
     text_content |-> review_text(data),
     reply_to |-> <<>>]

----------------------------------------------------------------------------
(* Requests *)

Clients == {"10.0.0.1", "10.0.0.2"}

Discuss == "/api/contact/discuss"
Review == "/api/contact/review"
Health == "/api/health"
Limited == {Discuss, Review}

Keys == Clients \X Limited

Jo == <<"J", "o">>
JoEmail == <<"j", "o", "@", "x", ".", "c", "o", "m">>
TenDigits == <<"1", "2", "3", "4", "5", "6", "7", "8", "9", "0">>
HelloThere == <<"H", "e", "l", "l", "o", " ", "t", "h", "e", "r", "e">>
ScriptTag == <<"<", "s", "c", "r", "i", "p", "t", ">", "h", "i">>

DiscussBase ==
    [name |-> Jo, email |-> JoEmail, phone |-> TenDigits, productName |-> <<>>,
     comment |-> HelloThere]

ReviewBase ==
    [name |-> Jo, phone |-> TenDigits, rating |-> 3, comment |-> HelloThere]

DiscussBodies ==
    {DiscussBase,
     [DiscussBase EXCEPT !.name = <<" ", "J", " ">>],
     [DiscussBase EXCEPT !.name = <<" ", "J", "o", "\n">>,
                         !.comment = <<"\t">> \o HelloThere \o <<" ">>],
     [DiscussBase EXCEPT !.email = Jo],
     [DiscussBase EXCEPT !.phone = <<"(", "1", "2", "3", ")", " ", "4", "5", "6">>],
     [DiscussBase EXCEPT !.phone = <<"+">> \o TenDigits \o <<"\t">>],
     [DiscussBase EXCEPT !.comment = <<" ", "H", "e", "l", "l", "o", "!", " ", " ", " ", " ">>],
     [DiscussBase EXCEPT !.comment = ScriptTag, !.productName = <<"<", "b", ">">>]}

ReviewBodies ==
    {[ReviewBase EXCEPT !.rating = r] : r \in (RatingMin - 1)..(RatingMax + 1)}
    \cup {[ReviewBase EXCEPT !.name = <<"J">>],
          [ReviewBase EXCEPT !.phone = TenDigits \o <<"x">>],
          [ReviewBase EXCEPT !.comment = ScriptTag \o <<"\n", "!">>]}

NoBody == [kind |-> "none"]

Bodies(e) ==
    CASE e = Discuss -> DiscussBodies
      [] e = Review -> ReviewBodies
      [] OTHER -> {NoBody}

\* one well-formed and one malformed body per submission route
BurstBodies(e) ==
    CASE e = Discuss -> {DiscussBase, [DiscussBase EXCEPT !.name = <<"J">>]}
      [] e = Review -> {ReviewBase, [ReviewBase EXCEPT !.rating = RatingMax + 1]}
      [] OTHER -> {NoBody}

OpsEmail == <<"o", "p", "s", "@", "c", "o", ".", "i", "o">>

Environments ==
    [credentials : BOOLEAN, recipient_set : BOOLEAN, RECIPIENT_EMAIL : {OpsEmail}]

----------------------------------------------------------------------------
(* The rate limit: limiter = Limiter(key_func=get_remote_address) and      *)
(* @limiter.limit("5/15minutes") on each submission route.  slowapi keeps  *)
(* one fixed-window counter per (remote address, route) in memory: a hit   *)
(* drops an expired counter, adds one, starts the window on the first hit  *)
(* and admits while the counter is at most the limit.                      *)

NoCounter == [count |-> 0, expiry |-> 0]

get_remote_address(req) == req.client

Expire(st, t) ==
    [k \in Keys |-> IF st[k].count > 0 /\ st[k].expiry <= t THEN NoCounter ELSE st[k]]

hit_without_counting(st, k, t) == Expire(st, t)

limiter_hit(st, k, t) ==
    LET live == Expire(st, t)
        n == live[k].count + 1
    IN  [live EXCEPT ![k] = [count |-> n,
                             expiry |-> IF n = 1 THEN t + WindowMinutes
                                        ELSE live[k].expiry]]

limiter_allows_one_more(st, k) == st[k].count <= Limit + 1

limiter_allows(st, k) == st[k].count <= Limit

\* slowapi's _rate_limit_exceeded_handler
rate_limit_exceeded_handler ==
    [status |-> 429, success |-> "absent",
     detail |-> <<"Rate limit exceeded: 5 per 15 minute">>]

----------------------------------------------------------------------------
(* State *)

Idle == [pc |-> "idle"]

NoMail ==
    [to_email |-> <<>>, subject |-> <<>>, html_content |-> <<>>,
     text_content |-> <<>>, reply_to |-> <<>>]

NoResponse == [status |-> 0, success |-> "absent", detail |-> <<>>]

NotValidated == [ok |-> FALSE, value |-> <<>>, msg |-> "(not run)"]

Init ==
    /\ now = 0
    /\ storage = [k \in Keys |-> NoCounter]
    /\ pending = EmptyBag
    /\ cur = Idle
    /\ nreq = 0
    /\ environ \in Environments
    /\ admitted = [k \in Keys |-> 0]
    /\ wstart = [k \in Keys |-> -1]
    /\ phone_in = <<>>
    /\ phone_out = NotValidated

pipeline == <<now, storage, pending, cur, nreq, environ, admitted, wstart>>
harness == <<phone_in, phone_out>>

----------------------------------------------------------------------------
(* Actions *)

Request(c, e, b) == [client |-> c, endpoint |-> e, body |-> b]

Started(req, pc, data) ==
    [pc |-> pc, client |-> req.client, endpoint |-> req.endpoint,
     body |-> req.body, data |-> data, mail |-> NoMail, calls |-> 0,
     result |-> "none", outcome |-> "none", response |-> NoResponse]

Finished(c, outcome, response) ==
    [c EXCEPT !.pc = "done", !.outcome = outcome, !.response = response]

\* A client's request arrives; the log_requests middleware lets it through.
Receive(c, e, b, max) ==
    /\ nreq < max
    /\ BagCardinality(pending) < MaxPending
    /\ pending' = pending (+) SetToBag({Request(c, e, b)})
    /\ nreq' = nreq + 1
    /\ UNCHANGED <<now, storage, cur, environ, admitted, wstart, harness>>

\* GET /api/health
health_check(req) ==
    /\ cur.pc = "idle"
    /\ BagIn(req, pending)
    /\ req.endpoint = Health
    /\ pending' = pending (-) SetToBag({req})
    /\ cur' = Finished(Started(req, "done", NoBody), "Served",
                       [status |-> 200, success |-> "absent",
                        detail |-> <<"OK", IF environ.credentials
                                           THEN "email_configured"
                                           ELSE "email_not_configured">>])
    /\ UNCHANGED <<now, storage, nreq, environ, admitted, wstart, harness>>

\* FastAPI builds the handler's `data` argument from the body before it calls
\* the route function (which is the limiter's wrapper around the handler); a
\* body that fails raises RequestValidationError.
Validate(req) ==
    /\ cur.pc = "idle"
    /\ BagIn(req, pending)
    /\ req.endpoint \in Limited
    /\ pending' = pending (-) SetToBag({req})
    /\ LET m == IF req.endpoint = Discuss THEN DiscussProjectRequest(req.body)
                ELSE ReviewRequest(req.body)
       IN  cur' = IF m.ok THEN Started(req, "limit", m.data)
                  ELSE Finished(Started(req, "done", NoBody), "ValidationFailed",
                                validation_exception_handler(m.errors))
    /\ UNCHANGED <<now, storage, nreq, environ, admitted, wstart, harness>>

\* @limiter.limit("5/15minutes"): the wrapper counts the attempt, then calls
\* the handler or raises RateLimitExceeded.
limiter_limit ==
    /\ cur.pc = "limit"
    /\ LET k == <<get_remote_address(cur), cur.endpoint>>
           st == limiter_hit(storage, k, now)
           ok == limiter_allows(st, k)
           inWindow == wstart[k] >= 0 /\ now < wstart[k] + WindowMinutes
           before == IF inWindow THEN admitted[k] ELSE 0
       IN  /\ storage' = st
           /\ wstart' = IF inWindow THEN wstart ELSE [wstart EXCEPT ![k] = now]
           /\ admitted' = [admitted EXCEPT ![k] = before + (IF ok THEN 1 ELSE 0)]
           /\ cur' = IF ok THEN [cur EXCEPT !.pc = "handler"]
                      ELSE Finished(cur, "Rejected", rate_limit_exceeded_handler)
    /\ UNCHANGED <<now, pending, nreq, environ, harness>>

\* discuss_project up to its call of send_email
discuss_project ==
    /\ cur.pc = "handler"
    /\ cur.endpoint = Discuss
    /\ cur' = [cur EXCEPT !.pc = "send", !.calls = @ + 1,
                          !.mail = discuss_mail(environ, cur.data, now)]
    /\ UNCHANGED <<now, storage, pending, nreq, environ, admitted, wstart, harness>>

\* submit_review up to its call of send_email
submit_review ==
    /\ cur.pc = "handler"
    /\ cur.endpoint = Review
    /\ cur' = [cur EXCEPT !.pc = "send", !.calls = @ + 1,
                          !.mail = review_mail(environ, cur.data, now)]
    /\ UNCHANGED <<now, storage, pending, nreq, environ, admitted, wstart, harness>>

\* What the SMTP server does with the session; "hang" is a server that
\* accepts the connection and never answers (smtplib.SMTP is given no timeout).
SmtpBehaviours == {"sent", "OSError", "SMTPAuthenticationError", "hang"}

\* send_email: "True", the exception it re-raises, or "hang"
send_email(env, smtp) ==
    IF ~env.credentials THEN "ValueError"
    ELSE IF smtp = "sent" THEN "True" ELSE smtp

\* the classes `except Exception` catches
ExceptionSubclasses == {"ValueError", "OSError", "SMTPAuthenticationError"}

SuccessMessage(e) ==
    IF e = Discuss THEN <<"Thank you! Your message has been sent successfully.">>
    ELSE <<"Thank you for your review!">>

GenericDetail(e) ==
    IF e = Discuss
    THEN <<"Sorry, there was an error sending your message. Please try again.">>
    ELSE <<"Sorry, there was an error submitting your review. Please try again.">>

respond_without_waiting(e, r) ==
    [outcome |-> "Delivered",
     response |-> [status |-> 200, success |-> "true", detail |-> SuccessMessage(e)]]

respond_with_cause(e, r) ==
    IF r = "True"
    THEN [outcome |-> "Delivered",
          response |-> [status |-> 200, success |-> "true",
                        detail |-> SuccessMessage(e)]]
    ELSE [outcome |-> "DeliveryFailed",
          response |-> [status |-> 500, success |-> "false", detail |-> <<r>>]]

\* the handler after send_email: return 200, or except Exception: return 500
handler_returns(e, r) ==
    IF r = "True"
    THEN [outcome |-> "Delivered",
          response |-> [status |-> 200, success |-> "true",
                        detail |-> SuccessMessage(e)]]
    ELSE IF r \in ExceptionSubclasses
    THEN [outcome |-> "DeliveryFailed",
          response |-> [status |-> 500, success |-> "false",
                        detail |-> GenericDetail(e)]]
    ELSE [outcome |-> "Unhandled",
          response |-> [status |-> 500, success |-> "absent",
                        detail |-> <<"Internal Server Error">>]]

\* send_email runs to its end and the handler responds, or the call blocks.
send_email_returns(smtp) ==
    /\ cur.pc = "send"
    /\ LET r == send_email(environ, smtp)
       IN  cur' = IF r = "hang" THEN [cur EXCEPT !.pc = "blocked", !.result = r]
                  ELSE LET h == handler_returns(cur.endpoint, r)
                       IN  Finished([cur EXCEPT !.result = r], h.outcome, h.response)
    /\ UNCHANGED <<now, storage, pending, nreq, environ, admitted, wstart, harness>>

\* The response is written and the event loop takes the next request.
Close ==
    /\ cur.pc = "done"
    /\ cur' = Idle
    /\ UNCHANGED <<now, storage, pending, nreq, environ, admitted, wstart, harness>>

\* Time passes; the storage's expiry timer drops the counters that ran out.
Tick ==
    /\ now + TickMinutes <= MaxTicks * TickMinutes
    /\ now' = now + TickMinutes
    /\ storage' = Expire(storage, now')
    /\ wstart' = [k \in Keys |-> IF wstart[k] >= 0 /\ now' >= wstart[k] + WindowMinutes
                                 THEN -1 ELSE wstart[k]]
    /\ admitted' = [k \in Keys |-> IF wstart'[k] = -1 THEN 0 ELSE admitted[k]]
    /\ UNCHANGED <<pending, cur, nreq, environ, harness>>

\* the steps of the event loop (everything but arrivals and the clock)
Serve ==
    \/ \E req \in BagToSet(pending) : health_check(req)
    \/ \E req \in BagToSet(pending) : Validate(req)
    \/ limiter_limit
    \/ discuss_project
    \/ submit_review
    \/ \E smtp \in SmtpBehaviours : send_email_returns(smtp)
    \/ Close

Endpoints == Limited \cup {Health}

OneClient == {"10.0.0.1"}

\* Any deployment: a few requests of one client, with every kind of body.
Next ==
    \/ \E c \in OneClient, e \in Endpoints :
         \E b \in Bodies(e) : Receive(c, e, b, MaxRequests)
    \/ Serve
    \/ Tick

Spec == Init /\ [][Next]_vars

\* A deployment with its credentials set: bursts of requests from both
\* clients, one well-formed and one malformed body per route.
InitBurst ==
    /\ Init
    /\ environ.credentials
    /\ ~environ.recipient_set

NextBurst ==
    \/ \E c \in Clients, e \in Endpoints :
         \E b \in BurstBodies(e) : Receive(c, e, b, MaxBurst)
    \/ Serve
    \/ Tick

SpecBurst == InitBurst /\ [][NextBurst]_vars

\* Any deployment: one client's requests up to and past its quota.

NextQuota ==
    \/ \E c \in OneClient, e \in Endpoints :
         \E b \in BurstBodies(e) : Receive(c, e, b, MaxQuota)
    \/ Serve
    \/ Tick

SpecQuota == Init /\ [][NextQuota]_vars

----------------------------------------------------------------------------
(* The phone validator on its own: a phone string is typed one character   *)
(* at a time and then validated.                                           *)

PhoneOther == {" ", "\t", "\n", "+", "(", "a"}

IsDigit(c) == c \in Digit

TypeDigit ==
    /\ phone_out = NotValidated
    /\ Len(SelectSeq(phone_in, IsDigit)) < MaxPhoneDigits
    /\ phone_in' = Append(phone_in, TenDigits[(Len(phone_in) % 10) + 1])
    /\ UNCHANGED <<phone_out, pipeline>>

TypeOther(c) ==
    /\ phone_out = NotValidated
    /\ Len(phone_in) - Len(SelectSeq(phone_in, IsDigit)) < MaxPhoneOther
    /\ phone_in' = Append(phone_in, c)
    /\ UNCHANGED <<phone_out, pipeline>>

SubmitPhone ==
    /\ phone_out = NotValidated
    /\ phone_out' = phone_must_be_valid(phone_in)
    /\ UNCHANGED <<phone_in, pipeline>>

NextPhone ==
    \/ TypeDigit
    \/ \E c \in PhoneOther : TypeOther(c)
    \/ SubmitPhone

SpecPhone == Init /\ [][NextPhone]_vars

----------------------------------------------------------------------------
(* Claims *)

CurKey == <<cur.client, cur.endpoint>>

InWindow(k) == wstart[k] >= 0 /\ now < wstart[k] + WindowMinutes

QuotaExhausted(k) == InWindow(k) /\ admitted[k] >= Limit

Submission == cur.pc # "idle" /\ cur.endpoint \in Limited

Done == cur.pc = "done" /\ cur.endpoint \in Limited

C2_RateCheckBeforeValidation ==
    ~(Done /\ cur.outcome = "ValidationFailed" /\ QuotaExhausted(CurKey))

TerminalStates == {"Delivered", "Rejected", "ValidationFailed", "DeliveryFailed"}

StatusOf(outcome) ==
    CASE outcome = "Delivered" -> 200
      [] outcome = "Rejected" -> 429
      [] outcome = "ValidationFailed" -> 422
      [] outcome = "DeliveryFailed" -> 500
      [] OTHER -> 0

\* C3: a finished submission is in exactly one of the four terminal states
\* and its response is the one of that state: 200 with success true, 429,
\* 422 with success false, 500 with success false and the route's fixed
\* detail whatever made the transport fail; no exception escapes.
C3_OutcomeDecidesResponse ==
    Done =>
      /\ cur.outcome \in TerminalStates
      /\ cur.response.status = StatusOf(cur.outcome)
      /\ cur.outcome = "Delivered" => cur.response.success = "true"
      /\ cur.outcome = "ValidationFailed" =>
           cur.response.success = "false" /\ cur.response.detail # <<>>
      /\ cur.outcome = "DeliveryFailed" =>
           /\ cur.response.success = "false"
           /\ cur.response.detail = GenericDetail(cur.endpoint)

\* C3 witness: a submission ended in DeliveryFailed because the credentials
\* are missing.
C3_Witness ==
    /\ Done
    /\ cur.outcome = "DeliveryFailed"
    /\ cur.result = "ValueError"

\* C4: a 200 is produced only after send_email was called once for the
\* request and returned without error; while the call is running no response
\* exists.
C4_SuccessOnlyAfterDelivery ==
    Submission =>
      /\ cur.response.status = 200 =>
           /\ cur.pc = "done"
           /\ cur.calls = 1
           /\ cur.result = "True"
           /\ cur.mail # NoMail
      /\ cur.pc \in {"limit", "handler", "send", "blocked"} =>
           cur.response = NoResponse

\* C4 witness: a submission answered 200 after its delivery.
C4_Witness ==
    /\ Done
    /\ cur.response.status = 200
    /\ cur.result = "True"

\* C5: the transport call is time-bounded: whenever a request is being
\* executed or is waiting, the event loop has a step to take.
C5_WorkerNeverStalls ==
    (cur.pc # "idle" \/ pending # EmptyBag) => ENABLED Serve

\* C6: no raw angle bracket of a submitted field is in the HTML body handed
\* to the transport.
C6_HtmlBodyEscaped ==
    Submission =>
      \A i \in 1..Len(cur.mail.html_content) :
        cur.mail.html_content[i] \notin {"<", ">"}

PhoneAllowed == Digit \cup {" ", "+", "-", "(", ")"}

DigitCount(v) == Len(SelectSeq(v, IsDigit))

\* C7: a phone with a character outside digits, space, + - ( ) fails; one
\* with fewer than 10 digits fails; any other is accepted and returned
\* trimmed with its separators.
C7_PhoneRule ==
    phone_out # NotValidated =>
      IF \E i \in 1..Len(phone_in) : phone_in[i] \notin PhoneAllowed
      THEN ~phone_out.ok
      ELSE IF DigitCount(phone_in) < PhoneMinDigits
      THEN ~phone_out.ok
      ELSE phone_out.ok /\ phone_out.value = Strip(phone_in)

Trimmed(s) == s = <<>> \/ (s[1] \notin Whitespace /\ s[Len(s)] \notin Whitespace)

\* the claim's rules on a raw body
BodyFollowsRules(e, body) ==
    /\ Len(Strip(body.name)) >= NameMinLen
    /\ Len(Strip(body.comment)) >= CommentMinLen
    /\ PhonePatternMatches(body.phone)
    /\ DigitCount(body.phone) >= PhoneMinDigits
    /\ e = Review => body.rating \in RatingMin..RatingMax
    /\ e = Discuss => EmailStr(body.email).ok

\* C8: what the limiter, the handler and the transport see is valid and
\* normalized (name trimmed, >= 2; comment trimmed, >= 10; phone passed the
\* phone validation; a review's rating in 1..5); a body that follows the
\* rules is never answered 422, and one that breaks a rule ends in 422 with
\* no notification built and no transport call.
C8_OnlyValidSubmissionsProceed ==
    Submission =>
      /\ (cur.pc \in {"limit", "handler", "send", "blocked"} \/ cur.calls > 0) =>
           /\ BodyFollowsRules(cur.endpoint, cur.body)
           /\ Trimmed(cur.data.name) /\ cur.data.name = Strip(cur.body.name)
           /\ Len(cur.data.name) >= NameMinLen
           /\ Trimmed(cur.data.comment)
           /\ cur.data.comment = Strip(cur.body.comment)
           /\ Len(cur.data.comment) >= CommentMinLen
           /\ PhonePatternMatches(cur.data.phone)
           /\ DigitCount(cur.data.phone) >= PhoneMinDigits
           /\ cur.endpoint = Review => cur.data.rating \in RatingMin..RatingMax
      /\ cur.pc = "done" =>
           IF BodyFollowsRules(cur.endpoint, cur.body)
           THEN cur.outcome # "ValidationFailed"
           ELSE /\ cur.outcome = "ValidationFailed"
                /\ cur.response.status = 422
                /\ cur.mail = NoMail
                /\ cur.calls = 0

\* C8 witness: a submission whose name and comment had to be trimmed is at
\* the transport.
C8_Witness ==
    /\ Submission
    /\ cur.pc = "send"
    /\ cur.data.name # cur.body.name
    /\ cur.data.comment # cur.body.comment

ConfiguredRecipient ==
    IF environ.recipient_set THEN environ.RECIPIENT_EMAIL ELSE DefaultRecipient

\* C10: send_email is called at most once per request: never for a request
\* that ends in Rejected or ValidationFailed, once for one that ends in
\* Delivered or DeliveryFailed; and the mail goes to RECIPIENT_EMAIL or its
\* default.
C10_OneTransportCall ==
    Submission =>
      /\ cur.calls <= 1
      /\ (cur.pc = "done" /\ cur.outcome \in {"Rejected", "ValidationFailed"}) =>
           cur.calls = 0 /\ cur.mail = NoMail
      /\ (cur.pc = "done" /\ cur.outcome \in {"Delivered", "DeliveryFailed"}) =>
           cur.calls = 1
      /\ cur.calls = 1 => cur.mail.to_email = ConfiguredRecipient

\* C10 witness: a request whose delivery failed at the SMTP server has made
\* its one call, to the configured recipient.
C10_Witness ==
    /\ Done
    /\ cur.outcome = "DeliveryFailed"
    /\ cur.result = "OSError"
    /\ environ.recipient_set
    /\ cur.calls = 1

====
